---- MODULE Spec2Model ----
(***************************************************************************)
(* Model of the FFmpeg compositor of src/src/video_composer.py:            *)
(* get_video_info, cleanup_temp_files and                                  *)
(* compose_video_ffmpeg_with_crossfade.                                    *)
(*                                                                         *)
(* Time is counted in ticks; TicksPerMs ticks make one millisecond, so     *)
(* that offsets with a fraction of a millisecond exist and the             *)
(* int(start_time_s * 1000) truncation of line 267 is observable.          *)
(* Python floats are modelled as exact numbers.                            *)
(***************************************************************************)
EXTENDS Integers, Sequences, FiniteSets, TLC

\* ---------------------------------------------------------------- bounds
MaxClips == 3

\* ----------------------------------------------------------------- units
TicksPerMs == 2

\* 0.01 s, the floor of a clip's effective duration (line 220)
MinEffectiveDuration == 10 * TicksPerMs
\* 0.01 s, the smallest duration get_video_info does not accept (line 51)
MinProbeDuration == 10 * TicksPerMs

\* ------------------------------------------------------- input domains
\* durations a probe can report: 0, exactly 0.01 s, 30 ms, 6 s
RawDurSet == {0, 20, 60, 12000}
\* transition_duration: 25 ms and 600.5 ms
TransSet == {50, 1201}
\* default_chart_duration: 0 s and 5 s
DefaultDurSet == {0, 10000}
\* what a path of clip_paths points at
KindSet == {"video", "image", "missing"}

\* Python's None where a number is expected
None == -1

\* frame sizes: the default of lines 86-87, a smaller and a larger one
DefaultSize == <<1280, 720>>
SizeSet == {<<640, 480>>, <<1280, 720>>, <<1920, 1080>>}
\* the video stream of a file may also carry no usable size
NoSize == <<0, 0>>

\* a path handed to get_video_info, as the file system and ffprobe see it:
\* whether it exists, whether it has at least 100 bytes, whether the probes
\* succeed, and what they report
ProbeTargets(sizes) ==
    [exists : BOOLEAN, size_ok : BOOLEAN, probe_ok : BOOLEAN,
     duration : RawDurSet, has_audio : BOOLEAN, dims : sizes \cup {NoSize}]

\* a media file that exists
MediaFilesOf(sizes) == {f \in ProbeTargets(sizes) : f.exists}

\* video files of the default frame size: every way to fail validation,
\* every duration, with and without audio
TimingPool == {f \in MediaFilesOf({DefaultSize}) : f.dims = DefaultSize}

\* video files of 6 s or of no duration, silent, in two frame sizes or
\* with no usable frame size
ResolutionPool ==
    {f \in MediaFilesOf({<<640, 480>>, DefaultSize}) :
        /\ f.size_ok /\ f.probe_ok /\ ~f.has_audio
        /\ f.duration \in {0, 12000}}

PoolFiles(pool) ==
    CASE pool = "timing" -> TimingPool
      [] pool = "resolution" -> ResolutionPool
      [] OTHER -> {}

\* the target sizes a caller can pass, with whether they were passed
TargetChoices ==
    {<<DefaultSize, FALSE>>, <<DefaultSize, TRUE>>, <<<<1920, 1080>>, TRUE>>}

NoInfo == [duration |-> None, width |-> None, height |-> None,
           has_audio |-> FALSE, usable |-> FALSE]

\* ------------------------------------------------------------- helpers
Max2(a, b) == IF a >= b THEN a ELSE b

Min2(a, b) == IF a <= b THEN a ELSE b

RECURSIVE SeqMax(_)
SeqMax(s) == IF Len(s) = 1 THEN s[1] ELSE Max2(s[1], SeqMax(Tail(s)))

Range(s) == {s[k] : k \in 1..Len(s)}

\* ------------------------------------------------------ get_video_info
\* the prober without the duration check of lines 51-53
get_video_info_any_duration(f) ==
    IF ~f.exists THEN NoInfo
    ELSE IF ~f.size_ok THEN NoInfo
    ELSE IF ~f.probe_ok THEN NoInfo
    ELSE LET bad_dims == f.dims[1] <= 0 \/ f.dims[2] <= 0 IN
         [duration |-> f.duration,
          width |-> IF bad_dims THEN None ELSE f.dims[1],
          height |-> IF bad_dims THEN None ELSE f.dims[2],
          has_audio |-> f.has_audio, usable |-> TRUE]

\* the prober without the size check of lines 18-20
get_video_info_any_size(f) ==
    IF ~f.exists THEN NoInfo
    ELSE IF ~f.probe_ok THEN NoInfo
    ELSE IF f.duration <= MinProbeDuration THEN NoInfo
    ELSE LET bad_dims == f.dims[1] <= 0 \/ f.dims[2] <= 0 IN
         [duration |-> f.duration,
          width |-> IF bad_dims THEN None ELSE f.dims[1],
          height |-> IF bad_dims THEN None ELSE f.dims[2],
          has_audio |-> f.has_audio, usable |-> TRUE]

\* lines 9-63: the sentinel for a missing or small file, a probe error or a
\* duration of at most 0.01 s; otherwise the probed duration, the frame size
\* (None when it is not positive, line 49) and the audio presence.
get_video_info(f) ==
    IF ~f.exists THEN NoInfo
    ELSE IF ~f.size_ok THEN NoInfo
    ELSE IF ~f.probe_ok THEN NoInfo
    ELSE IF f.duration <= MinProbeDuration THEN NoInfo
    ELSE LET bad_dims == f.dims[1] <= 0 \/ f.dims[2] <= 0 IN
         [duration |-> f.duration,
          width |-> IF bad_dims THEN None ELSE f.dims[1],
          height |-> IF bad_dims THEN None ELSE f.dims[2],
          has_audio |-> f.has_audio, usable |-> TRUE]

\* ---------------------------------------------------------------- state
VARIABLES
    pc,                       \* position in compose_video_ffmpeg_with_crossfade
    clip_paths,               \* the input list, one kind per path
    transition_duration,
    default_chart_duration,
    target_width,             \* the caller's target_width and target_height
    target_height,
    target_explicit,          \* whether the caller passed them
    media_pool,               \* which files the paths can resolve to
    i,                        \* loop index (1-based)
    inputs_info,              \* the working set
    sources,                  \* what each input seen so far turned out to be
    final_video_width,        \* the job's resolution (lines 104-105, 206)
    final_video_height,
    first_video_dims_found,
    actual_sizes,             \* the frame size each clip's file really has
    temp_files,               \* wrapper files registered for cleanup
    disk,                     \* wrapper files of this invocation on disk
    created,                  \* wrapper files this invocation ever created
    valid_clips_exist,
    clip_start_times,
    final_duration_estimate,
    video_inputs_processed,   \* length of each clip's video stream
    audio_streams_for_mixing, \* per clip: source length and adelay per channel
    stream_sizes,             \* frame size of each clip's video stream
    xfades,                   \* the xfade filters of the chain, in order
    processed_video,          \* length of the video track, -1 before it exists
    processed_audio,          \* length of the narration mix, -1 before
    bg_music,                 \* what the configured music turned out to be
    bgm_duration,             \* duration of the music mixed in, -1 if none
    bgm_loop,                 \* whether the music input is looped
    bgm_audio,                \* length of the prepared music bed, -1 if none
    final_audio_stream,       \* length of the final audio track
    failed,                   \* the stage a failure happened in, or "none"
    encoder_run,              \* "none", "raised" or "completed"
    output_file,              \* the output path after the encoder call
    error_lines,              \* whether stderr held a failure keyword
    probed_file,              \* get_video_info on its own: the argument
    probe_result,             \* and what it returned
    result,                   \* "none", "True", "False" or "exception"
    worker_pc,                \* two concurrent compositions: position of each
    worker_clips,             \* the images each was given, by base name
    worker_i,                 \* each one's loop index
    worker_temp_files,        \* each one's temp_files
    output_dir,               \* wrapper path -> the worker whose file it holds
    ui_pc,                    \* position in generate_video and the pipeline
    request_valid,            \* an upload and both ids were given
    temp_file_exists,         \* the saved upload (temp_filename) is on disk
    segment_order,            \* segment names in final order
    chart_paths,              \* the charts that were generated
    avatar_clip_paths,        \* the segments whose avatar clip was generated
    final_sequence_paths,     \* the assets handed to the compositor
    event_i,                  \* index of the event loop (from 0)
    added_manhattan,
    composition_success,      \* "none", "True" or "False"
    final_video,              \* the final video file exists
    output_video_path,        \* what the pipeline returned: "unset" or "None"
    ui_result,                \* "none", "path" or the error raised to the UI
    avatar_pc,                \* position in get_avatar_clip
    max_wait_seconds,
    retry_delay_status,
    clock,                    \* seconds since start_time
    poll_count,
    status,                   \* the last status response
    video_url,                \* it carried a URL
    downloaded,               \* download_video returned True
    file_ok,                  \* the file exists and has more than 1000 bytes
    checked_late,             \* a status check began at or after the limit
    avatar_result             \* "none", "None" or "path"

vars == <<pc, clip_paths, transition_duration, default_chart_duration,
          target_width, target_height, target_explicit, media_pool, i,
          inputs_info, sources, final_video_width, final_video_height,
          first_video_dims_found, actual_sizes, temp_files, disk, created,
          valid_clips_exist, clip_start_times, final_duration_estimate,
          video_inputs_processed, audio_streams_for_mixing, stream_sizes,
          xfades, processed_video, processed_audio, bg_music, bgm_duration,
          bgm_loop, bgm_audio, final_audio_stream, failed, encoder_run,
          output_file, error_lines, probed_file, probe_result, result,
          worker_pc, worker_clips, worker_i, worker_temp_files, output_dir,
          ui_pc, request_valid, temp_file_exists, segment_order, chart_paths,
          avatar_clip_paths, final_sequence_paths, event_i, added_manhattan,
          composition_success, final_video, output_video_path, ui_result,
          avatar_pc, max_wait_seconds, retry_delay_status, clock, poll_count,
          status, video_url, downloaded, file_ok, checked_late,
          avatar_result>>

inputVars == <<clip_paths, transition_duration, default_chart_duration,
               target_width, target_height, target_explicit, media_pool>>
prepVars == <<sources, final_video_width, final_video_height,
              first_video_dims_found, actual_sizes>>
encVars == <<encoder_run, output_file, error_lines>>
probeVars == <<probed_file, probe_result>>
workerVars == <<worker_pc, worker_clips, worker_i, worker_temp_files,
                output_dir>>
pipelineVars == <<ui_pc, request_valid, temp_file_exists, segment_order,
                  chart_paths, avatar_clip_paths, final_sequence_paths,
                  event_i, added_manhattan, composition_success, final_video,
                  output_video_path, ui_result>>
avatarVars == <<avatar_pc, max_wait_seconds, retry_delay_status, clock,
                poll_count, status, video_url, downloaded, file_ok,
                checked_late, avatar_result>>
otherVars == <<workerVars, pipelineVars, avatarVars>>
timelineVars == <<clip_start_times, final_duration_estimate>>
trackVars == <<video_inputs_processed, audio_streams_for_mixing, xfades,
               stream_sizes, processed_video, processed_audio, bg_music,
               bgm_duration, bgm_loop, bgm_audio, final_audio_stream, failed>>
streamVars == <<video_inputs_processed, audio_streams_for_mixing, xfades,
                stream_sizes, processed_video, processed_audio, bg_music,
                bgm_duration, bgm_loop, bgm_audio, final_audio_stream>>

\* lines 65-78: every registered file that exists is removed
cleanup_temp_files(files, d) == d \ Range(files)

ClipLists == UNION {[1..n -> KindSet] : n \in 0..MaxClips}

\* the locals of lines 102-110 and everything not yet computed
InitLocals ==
    /\ i = 1
    /\ inputs_info = <<>>
    /\ sources = <<>>
    /\ final_video_width = target_width
    /\ final_video_height = target_height
    /\ first_video_dims_found = FALSE
    /\ actual_sizes = <<>>
    /\ stream_sizes = <<>>
    /\ temp_files = <<>>
    /\ disk = {}
    /\ created = {}
    /\ valid_clips_exist = FALSE
    /\ clip_start_times = <<>>
    /\ final_duration_estimate = -1
    /\ video_inputs_processed = <<>>
    /\ audio_streams_for_mixing = <<>>
    /\ xfades = <<>>
    /\ processed_video = -1
    /\ processed_audio = -1
    /\ bg_music = "unset"
    /\ bgm_duration = -1
    /\ bgm_loop = FALSE
    /\ bgm_audio = -1
    /\ final_audio_stream = -1
    /\ failed = "none"
    /\ encoder_run = "none"
    /\ output_file = "untouched"
    /\ error_lines = FALSE
    /\ result = "none"

MaxImages == 2

\* the charts' file names as they appear in a wrapper's name (lines 134-137
\* of video_composer.py, lines 79 and 150 of chart_generator.py)
BaseNames == {"run_rate_comparison_png", "manhattan_chart_png"}

\* line 137: temp_img_<i>_<safe_base>.mp4 in the output directory
TempPath(index, base) == <<index, base>>

TempPaths == {TempPath(k, b) : k \in 1..MaxImages, b \in BaseNames}

Workers == {1, 2}

WorkerClipLists == UNION {[1..n -> BaseNames] : n \in 1..MaxImages}

\* no concurrent compositions
WorkersIdle ==
    /\ worker_pc = [w \in Workers |-> "idle"]
    /\ worker_clips = [w \in Workers |-> <<>>]
    /\ worker_i = [w \in Workers |-> 1]
    /\ worker_temp_files = [w \in Workers |-> <<>>]
    /\ output_dir = [p \in TempPaths |-> 0]

\* generate_video is not running
PipelineIdle ==
    /\ ui_pc = "idle"
    /\ request_valid = FALSE
    /\ temp_file_exists = FALSE
    /\ segment_order = <<>>
    /\ chart_paths = {}
    /\ avatar_clip_paths = {}
    /\ final_sequence_paths = <<>>
    /\ event_i = 0
    /\ added_manhattan = FALSE
    /\ composition_success = "none"
    /\ final_video = FALSE
    /\ output_video_path = "unset"
    /\ ui_result = "none"

\* get_avatar_clip is not running
AvatarIdle ==
    /\ avatar_pc = "idle"
    /\ max_wait_seconds = 0
    /\ retry_delay_status = 0
    /\ clock = 0
    /\ poll_count = 0
    /\ status = "none"
    /\ video_url = FALSE
    /\ downloaded = FALSE
    /\ file_ok = FALSE
    /\ checked_late = FALSE
    /\ avatar_result = "none"

OthersIdle == WorkersIdle /\ PipelineIdle /\ AvatarIdle

\* lines 81-110: a call with any clip list, transition and image duration,
\* the default target size, and input files of that size
Init ==
    /\ clip_paths \in ClipLists
    /\ transition_duration \in TransSet
    /\ default_chart_duration \in DefaultDurSet
    /\ target_width = DefaultSize[1]
    /\ target_height = DefaultSize[2]
    /\ target_explicit = FALSE
    /\ media_pool = "timing"
    /\ pc = "start"
    /\ probed_file = <<>>
    /\ probe_result = NoInfo
    /\ InitLocals
    /\ OthersIdle

\* a call whose input files differ in frame size, with a target size the
\* caller passed or left at its default
InitResolution ==
    /\ clip_paths \in ClipLists
    /\ transition_duration = 50
    /\ default_chart_duration = 10000
    /\ \E t \in TargetChoices :
          /\ target_width = t[1][1]
          /\ target_height = t[1][2]
          /\ target_explicit = t[2]
    /\ media_pool = "resolution"
    /\ pc = "start"
    /\ probed_file = <<>>
    /\ probe_result = NoInfo
    /\ InitLocals
    /\ OthersIdle

\* get_video_info called on its own with any path
InitProbe ==
    /\ clip_paths = <<>>
    /\ transition_duration = 50
    /\ default_chart_duration = 10000
    /\ target_width = DefaultSize[1]
    /\ target_height = DefaultSize[2]
    /\ target_explicit = FALSE
    /\ media_pool = "none"
    /\ pc = "probe"
    /\ probed_file \in ProbeTargets(SizeSet)
    /\ probe_result = NoInfo
    /\ InitLocals
    /\ OthersIdle

\* lines 9-63
ProbeFile ==
    /\ pc = "probe"
    /\ probe_result' = get_video_info(probed_file)
    /\ pc' = "probed"
    /\ UNCHANGED <<probed_file, otherVars, encVars, inputVars, i, inputs_info,
                   prepVars, temp_files, disk, created, valid_clips_exist,
                   timelineVars, trackVars, result>>

Return(r) == pc' = "done" /\ result' = r

\* lines 98-100
NoClipPaths ==
    /\ pc = "start"
    /\ clip_paths = <<>>
    /\ Return("False")
    /\ UNCHANGED <<probeVars, otherVars, encVars, inputVars, i, inputs_info,
                   prepVars, temp_files, disk, created, valid_clips_exist,
                   timelineVars, trackVars>>

\* lines 102-110
BeginPreprocess ==
    /\ pc = "start"
    /\ clip_paths # <<>>
    /\ pc' = "preprocess"
    /\ UNCHANGED <<probeVars, otherVars, encVars, inputVars, i, inputs_info,
                   prepVars, temp_files, disk, created, valid_clips_exist,
                   timelineVars, trackVars, result>>

\* what an input turned out to be; duration is what a valid one offers
Source(kind, class, duration) ==
    [kind |-> kind, class |-> class, duration |-> duration]

ValidClasses == {"video", "wrapper", "wrapper_unprobed"}

\* a clip put at the head of the working set
AdmitFirst(working_set, clip) == <<clip>> \o working_set

\* lines 158, 167, 188: inputs_info.append
Admit(working_set, clip) == Append(working_set, clip)

\* lines 112-124: a path that is empty or names no file is skipped
PreprocessMissing ==
    /\ pc = "preprocess"
    /\ i <= Len(clip_paths)
    /\ clip_paths[i] = "missing"
    /\ i' = i + 1
    /\ sources' = Append(sources, Source("missing", "missing", None))
    /\ UNCHANGED <<probeVars, otherVars, encVars, pc, inputVars, inputs_info,
                   final_video_width, final_video_height,
                   first_video_dims_found, actual_sizes, temp_files, disk,
                   created, valid_clips_exist, timelineVars, trackVars,
                   result>>

\* the wrapper clip ffmpeg writes for an image holds the frame for
\* default_chart_duration at the target size and has no audio track
\* (lines 143-148)
TempVideoFiles ==
    [exists : {TRUE}, size_ok : BOOLEAN, probe_ok : BOOLEAN,
     duration : {default_chart_duration}, has_audio : {FALSE},
     dims : {<<target_width, target_height>>}]

\* the wrapper clip entered as if it were a caller's file
ImageClipNotTemporary(path, d, w, h) ==
    [path |-> path, duration |-> d, width |-> w, height |-> h,
     has_audio |-> FALSE, is_temp |-> FALSE, kind |-> "image"]

\* lines 158, 167: the clip of an image
ImageClip(path, d, w, h) ==
    [path |-> path, duration |-> d, width |-> w, height |-> h,
     has_audio |-> FALSE, is_temp |-> TRUE, kind |-> "image"]

\* the wrapper's probed duration taken as it comes, usable or not
ImageClipDurationUnchecked(temp_duration, duration) == temp_duration

\* lines 155-168: the probed duration of the wrapper, or the intended one
\* when the probe gave none
ImageClipDuration(temp_duration, duration) ==
    IF temp_duration # None /\ temp_duration > 0
    THEN temp_duration ELSE duration

\* lines 139-179: the conversion raised or left no wrapper file, or the
\* wrapper was written and its probe did or did not give a duration
ImageClass(run, written, info) ==
    IF run = "raise" \/ ~written THEN "not_converted"
    ELSE IF info.usable THEN "wrapper" ELSE "wrapper_unprobed"

\* lines 130-179: the conversion raises (the wrapper file may already be on
\* disk), or ends without a wrapper file, or writes one that is then probed
PreprocessImage ==
    /\ pc = "preprocess"
    /\ i <= Len(clip_paths)
    /\ clip_paths[i] = "image"
    /\ i' = i + 1
    /\ \E run \in {"raise", "ok"}, written \in BOOLEAN, f \in TempVideoFiles :
         LET info == get_video_info(f)
             temp_duration == info.duration
             duration == default_chart_duration
             img_width == target_width
             img_height == target_height
             class == ImageClass(run, written, info)
         IN
         /\ disk' = IF written THEN disk \cup {i} ELSE disk
         /\ created' = IF written THEN created \cup {i} ELSE created
         /\ sources' = Append(sources,
                Source("image", class,
                       IF class \in ValidClasses THEN duration ELSE None))
         /\ IF run = "ok" /\ written
            THEN /\ inputs_info' =
                      Admit(inputs_info,
                            ImageClip(i,
                                      ImageClipDuration(temp_duration,
                                                        duration),
                                      img_width, img_height))
                 /\ actual_sizes' =
                      Append(actual_sizes, <<img_width, img_height>>)
                 /\ temp_files' = Append(temp_files, i)
                 /\ valid_clips_exist' = TRUE
                 /\ IF temp_duration # None /\ temp_duration > 0
                       /\ ~first_video_dims_found
                    THEN /\ final_video_width' = img_width
                         /\ final_video_height' = img_height
                         /\ first_video_dims_found' = TRUE
                    ELSE UNCHANGED <<final_video_width, final_video_height,
                                     first_video_dims_found>>
            ELSE UNCHANGED <<inputs_info, temp_files, valid_clips_exist,
                             final_video_width, final_video_height,
                             first_video_dims_found, actual_sizes>>
    /\ UNCHANGED <<probeVars, otherVars, encVars, pc, inputVars, timelineVars,
                   trackVars, result>>

\* lines 18-20, 51-53, 57-63: a file under the size threshold, a probe
\* error and a duration of at most 0.01 s all give the caller the same
\* sentinel
VideoClass(f) ==
    IF ~f.size_ok \/ ~f.probe_ok \/ f.duration <= MinProbeDuration
    THEN "rejected" ELSE "video"

\* the frame size a file's video stream really has: the probed one, or any
\* when the probe gave none
ActualSizes(f) ==
    IF f.dims = NoSize THEN {<<640, 480>>, DefaultSize} ELSE {f.dims}

\* lines 185-186: a missing or non-positive size gives way to the target
ClipSize(probed, target) ==
    IF probed # None /\ probed > 0 THEN probed ELSE target

\* lines 181-195
PreprocessVideo ==
    /\ pc = "preprocess"
    /\ i <= Len(clip_paths)
    /\ clip_paths[i] = "video"
    /\ i' = i + 1
    /\ \E f \in PoolFiles(media_pool) : \E actual \in ActualSizes(f) :
         LET info == get_video_info(f)
             clip_width == ClipSize(info.width, target_width)
             clip_height == ClipSize(info.height, target_height)
             class == VideoClass(f)
         IN
         /\ sources' = Append(sources,
                Source("video", class,
                       IF class \in ValidClasses THEN f.duration ELSE None))
         /\ IF info.duration # None /\ info.duration > 0
            THEN /\ inputs_info' = Admit(inputs_info,
                       [path |-> i, duration |-> info.duration,
                        width |-> clip_width, height |-> clip_height,
                        has_audio |-> info.has_audio, is_temp |-> FALSE,
                        kind |-> "video"])
                 /\ actual_sizes' = Append(actual_sizes, actual)
                 /\ valid_clips_exist' = TRUE
                 /\ IF ~first_video_dims_found /\ clip_width # 0
                       /\ clip_height # 0
                    THEN /\ final_video_width' = clip_width
                         /\ final_video_height' = clip_height
                         /\ first_video_dims_found' = TRUE
                    ELSE UNCHANGED <<final_video_width, final_video_height,
                                     first_video_dims_found>>
            ELSE UNCHANGED <<inputs_info, valid_clips_exist, final_video_width,
                             final_video_height, first_video_dims_found,
                             actual_sizes>>
    /\ UNCHANGED <<probeVars, otherVars, encVars, pc, inputVars, temp_files,
                   disk, created, timelineVars, trackVars, result>>

\* lines 198-201
NoValidClips ==
    /\ pc = "preprocess"
    /\ i > Len(clip_paths)
    /\ (~valid_clips_exist \/ inputs_info = <<>>)
    /\ disk' = cleanup_temp_files(temp_files, disk)
    /\ Return("False")
    /\ UNCHANGED <<probeVars, otherVars, encVars, inputVars, i, inputs_info,
                   prepVars, temp_files, created, valid_clips_exist,
                   timelineVars, trackVars>>

\* the floor applied to the clip's duration before the overlap is taken off
RECURSIVE TimelineLoopFloorBeforeOverlap(_, _, _, _, _)
TimelineLoopFloorBeforeOverlap(info, t, k, offset, starts) ==
    IF k > Len(info)
    THEN [clip_start_times |-> starts, current_offset_s |-> offset]
    ELSE LET clip_effective_duration ==
                 Max2(MinEffectiveDuration, info[k].duration)
                    - (IF k < Len(info) THEN t ELSE 0)
         IN TimelineLoopFloorBeforeOverlap(info, t, k + 1,
                offset + clip_effective_duration, Append(starts, offset))

\* the loop without the floor of line 220
RECURSIVE TimelineLoopNoFloor(_, _, _, _, _)
TimelineLoopNoFloor(info, t, k, offset, starts) ==
    IF k > Len(info)
    THEN [clip_start_times |-> starts, current_offset_s |-> offset]
    ELSE LET clip_effective_duration ==
                 info[k].duration - (IF k < Len(info) THEN t ELSE 0)
         IN TimelineLoopNoFloor(info, t, k + 1,
                offset + clip_effective_duration, Append(starts, offset))

\* the loop taking the overlap off the last clip as well
RECURSIVE TimelineLoopOverlapOnLast(_, _, _, _, _)
TimelineLoopOverlapOnLast(info, t, k, offset, starts) ==
    IF k > Len(info)
    THEN [clip_start_times |-> starts, current_offset_s |-> offset]
    ELSE LET clip_effective_duration ==
                 Max2(MinEffectiveDuration, info[k].duration - t)
         IN TimelineLoopOverlapOnLast(info, t, k + 1,
                offset + clip_effective_duration, Append(starts, offset))

\* lines 211-221: the loop that fills clip_start_times; k is the clip the
\* loop is at, offset is current_offset_s
RECURSIVE TimelineLoop(_, _, _, _, _)
TimelineLoop(info, t, k, offset, starts) ==
    IF k > Len(info)
    THEN [clip_start_times |-> starts, current_offset_s |-> offset]
    ELSE LET clip_effective_duration ==
                 Max2(MinEffectiveDuration,
                      info[k].duration - (IF k < Len(info) THEN t ELSE 0))
         IN TimelineLoop(info, t, k + 1, offset + clip_effective_duration,
                         Append(starts, offset))

\* the timeline computed as soon as one clip is in the working set
CalculateTimelineEarly ==
    /\ pc = "preprocess"
    /\ valid_clips_exist /\ inputs_info # <<>>
    /\ LET tl == TimelineLoop(inputs_info, transition_duration, 1, 0, <<>>) IN
         /\ clip_start_times' = tl.clip_start_times
         /\ final_duration_estimate' = tl.current_offset_s
    /\ pc' = "build"
    /\ i' = 1
    /\ UNCHANGED <<probeVars, otherVars, encVars, inputVars, inputs_info,
                   prepVars, temp_files, disk, created, valid_clips_exist,
                   trackVars, result>>

\* lines 203-224
CalculateTimeline ==
    /\ pc = "preprocess"
    /\ i > Len(clip_paths)
    /\ valid_clips_exist /\ inputs_info # <<>>
    /\ LET tl == TimelineLoop(inputs_info, transition_duration, 1, 0, <<>>) IN
         /\ clip_start_times' = tl.clip_start_times
         /\ final_duration_estimate' = tl.current_offset_s
    /\ pc' = "build"
    /\ i' = 1
    /\ UNCHANGED <<probeVars, otherVars, encVars, inputVars, inputs_info,
                   prepVars, temp_files, disk, created, valid_clips_exist,
                   trackVars, result>>

\* line 267: int(start_time_s * 1000), whole milliseconds
start_time_ms(start_time_s) == start_time_s \div TicksPerMs

\* silence cut at half the clip's duration
AudioSourceLengthsHalfSilence(info) ==
    IF info.has_audio
    THEN {info.duration, info.duration \div 2}
    ELSE {info.duration \div 2}

\* the length of the audio a clip contributes (lines 255-263): a clip with
\* an audio stream gives what the file holds, at most the t=duration of
\* line 236; a clip without one gives anullsrc cut at t=actual_duration
AudioSourceLengths(info) ==
    IF info.has_audio
    THEN {info.duration, info.duration \div 2}
    ELSE {info.duration}

\* lines 265-271: adelay with one value per channel
DelayedAudio(len, start_time_s) ==
    [length |-> len,
     delay_left |-> start_time_ms(start_time_s),
     delay_right |-> start_time_ms(start_time_s)]

\* the length of a stream after adelay: the delay, then the source
StreamLength(a) == Max2(a.delay_left, a.delay_right) * TicksPerMs + a.length

\* lines 239-244: scale and pad only when the recorded size is not the
\* job's size; otherwise the stream keeps the size the file has
ScaleAndPad(stream_w, stream_h, to_w, to_h, actual) ==
    IF stream_w # to_w \/ stream_h # to_h THEN <<to_w, to_h>> ELSE actual

\* lines 232-274: one pass of the loop that builds the per-clip streams
BuildClipStreams ==
    /\ pc = "build"
    /\ i <= Len(inputs_info)
    /\ LET info == inputs_info[i] IN
         \E len \in AudioSourceLengths(info) :
            /\ video_inputs_processed' =
                   Append(video_inputs_processed, info.duration)
            /\ audio_streams_for_mixing' =
                   Append(audio_streams_for_mixing,
                          DelayedAudio(len, clip_start_times[i]))
            /\ stream_sizes' =
                   Append(stream_sizes,
                          ScaleAndPad(info.width, info.height,
                                      final_video_width, final_video_height,
                                      actual_sizes[i]))
    /\ i' = i + 1
    /\ UNCHANGED <<probeVars, otherVars, encVars, pc, inputVars, inputs_info,
                   prepVars, temp_files, disk, created, valid_clips_exist,
                   timelineVars, xfades, processed_video, processed_audio,
                   bg_music, bgm_duration, bgm_loop, bgm_audio,
                   final_audio_stream, failed, result>>

\* lines 276-279: an exception in the loop body is caught
BuildClipStreamsFails ==
    /\ pc = "build"
    /\ i <= Len(inputs_info)
    /\ disk' = cleanup_temp_files(temp_files, disk)
    /\ failed' = "streams"
    /\ Return("False")
    /\ UNCHANGED <<probeVars, otherVars, encVars, inputVars, i, inputs_info,
                   prepVars, temp_files, created, valid_clips_exist,
                   timelineVars, streamVars>>

\* the xfade filter: the first input plays until offset, the second input
\* is faded in from there and plays to its end; a first input that ends
\* before offset is followed by the second input
XfadeLength(first, second, offset) ==
    IF first >= offset THEN offset + second ELSE first + second

\* each xfade placed at an offset recomputed from the two clips it joins
XfadeChainLocalOffset(starts, t) ==
    [k \in 1..(Len(starts) - 1) |->
        [offset |-> starts[k + 1] - starts[k], duration |-> t]]

\* lines 284-291: the chain of xfade filters over clips 2..n
XfadeChain(starts, t) ==
    [k \in 1..(Len(starts) - 1) |-> [offset |-> starts[k + 1], duration |-> t]]

RECURSIVE ChainLength(_, _, _, _)
ChainLength(videos, chain, k, acc) ==
    IF k > Len(videos) THEN acc
    ELSE ChainLength(videos, chain, k + 1,
                     XfadeLength(acc, videos[k], chain[k - 1].offset))

\* the amix filter: the mix ends with the longest, the shortest or the
\* first of its inputs
RECURSIVE SeqMin(_)
SeqMin(s) == IF Len(s) = 1 THEN s[1]
             ELSE LET m == SeqMin(Tail(s)) IN IF s[1] <= m THEN s[1] ELSE m

Amix(lengths, duration) ==
    CASE duration = "longest" -> SeqMax(lengths)
      [] duration = "shortest" -> SeqMin(lengths)
      [] duration = "first" -> lengths[1]

\* the policy the narration mix had before the fix noted at line 298
NarrationMixPolicyFirst == "first"

\* lines 295-299
NarrationMixPolicy == "longest"

\* lines 282-304
ApplyTransitions ==
    /\ pc = "build"
    /\ i > Len(inputs_info)
    /\ IF Len(inputs_info) > 1
       THEN /\ xfades' = XfadeChain(clip_start_times, transition_duration)
            /\ processed_video' =
                   ChainLength(video_inputs_processed, xfades', 2,
                               video_inputs_processed[1])
            /\ processed_audio' =
                   Amix([k \in 1..Len(audio_streams_for_mixing) |->
                            StreamLength(audio_streams_for_mixing[k])],
                        NarrationMixPolicy)
       ELSE /\ xfades' = xfades
            /\ processed_video' = video_inputs_processed[1]
            /\ processed_audio' = StreamLength(audio_streams_for_mixing[1])
    /\ pc' = "bgm"
    /\ UNCHANGED <<probeVars, otherVars, encVars, inputVars, i, inputs_info,
                   prepVars, temp_files, disk, created, valid_clips_exist,
                   timelineVars, video_inputs_processed,
                   audio_streams_for_mixing, stream_sizes, bg_music,
                   bgm_duration, bgm_loop, bgm_audio, final_audio_stream,
                   failed, result>>

\* lines 282-308 are inside no try block: an exception raised while the
\* crossfades are chained or the audio is mixed leaves the function
ApplyTransitionsRaises ==
    /\ pc = "build"
    /\ i > Len(inputs_info)
    /\ failed' = "transitions"
    /\ Return("exception")
    /\ UNCHANGED <<probeVars, otherVars, encVars, inputVars, i, inputs_info,
                   prepVars, temp_files, disk, created, valid_clips_exist,
                   timelineVars, streamVars>>

\* lines 312-314: no music configured, or the file is not there
NoBackgroundMusic ==
    /\ pc = "bgm"
    /\ bg_music' \in {"none", "missing"}
    /\ final_audio_stream' = processed_audio
    /\ pc' = "encode"
    /\ UNCHANGED <<probeVars, otherVars, encVars, inputVars, i, inputs_info,
                   prepVars, temp_files, disk, created, valid_clips_exist,
                   timelineVars, video_inputs_processed,
                   audio_streams_for_mixing, stream_sizes, xfades,
                   processed_video, processed_audio, bgm_duration, bgm_loop,
                   bgm_audio, failed, result>>

\* lines 320-329: the music is looped without end when it is shorter than
\* the timeline, and trimmed to the timeline's total
BgmAudioLength(music_duration, total) ==
    LET loop_needed == music_duration > 0 /\ total > music_duration IN
    IF loop_needed THEN total
    ELSE IF music_duration <= total THEN music_duration ELSE total

\* the second mix ending with its longest input
BgmMixPolicyLongest == "longest"

\* lines 332-334
BgmMixPolicy == "first"

\* the music mixed in whether or not the probe found an audio stream
MusicMixWithoutAudioCheck(info, raises, narration, total) ==
    IF raises \/ info.duration = None
    THEN [mixed |-> FALSE, loop |-> FALSE, bgm_audio |-> -1,
          final |-> narration]
    ELSE LET loop_needed == info.duration > 0 /\ total > info.duration
             bgm == BgmAudioLength(info.duration, total)
         IN [mixed |-> TRUE, loop |-> loop_needed, bgm_audio |-> bgm,
             final |-> Amix(<<narration, bgm>>, BgmMixPolicy)]

\* lines 316-338: the body of the try block; without an audio stream, or on
\* any other exception, the narration mix stays the final audio
MusicMix(info, raises, narration, total) ==
    IF ~info.has_audio \/ raises
    THEN [mixed |-> FALSE, loop |-> FALSE, bgm_audio |-> -1,
          final |-> narration]
    ELSE LET loop_needed == info.duration # None /\ info.duration > 0
                            /\ total > info.duration
             bgm == BgmAudioLength(info.duration, total)
         IN [mixed |-> TRUE, loop |-> loop_needed, bgm_audio |-> bgm,
             final |-> Amix(<<narration, bgm>>, BgmMixPolicy)]

MusicClass(info, raises) ==
    IF ~info.usable THEN "unprobeable"
    ELSE IF ~info.has_audio THEN "no_audio"
    ELSE IF raises THEN "error" ELSE "mixed"

\* lines 314-338: the music file exists and is probed
BackgroundMusic ==
    /\ pc = "bgm"
    /\ \E f \in MediaFilesOf({NoSize}), raises \in BOOLEAN :
         LET info == get_video_info(f)
             mix == MusicMix(info, raises, processed_audio,
                             final_duration_estimate)
         IN
         /\ bg_music' = MusicClass(info, raises)
         /\ bgm_duration' = IF mix.mixed THEN info.duration ELSE -1
         /\ bgm_loop' = mix.loop
         /\ bgm_audio' = mix.bgm_audio
         /\ final_audio_stream' = mix.final
    /\ pc' = "encode"
    /\ UNCHANGED <<probeVars, otherVars, encVars, inputVars, i, inputs_info,
                   prepVars, temp_files, disk, created, valid_clips_exist,
                   timelineVars, video_inputs_processed,
                   audio_streams_for_mixing, stream_sizes, xfades,
                   processed_video, processed_audio, failed, result>>

\* a failure keyword in stderr turned into a failure
EncodeResultKeywordsFail(output, keywords) ==
    IF output = "ok" /\ ~keywords THEN "True" ELSE "False"

\* lines 358-380: the keyword scan only prints; the output file decides
EncodeResult(output, keywords) ==
    IF output = "ok" THEN "True" ELSE "False"

\* lines 341-391: the encoder raises and leaves the output path absent or
\* holding an older file, or ends and leaves it absent, too small or
\* usable; the finally clause cleans up
Encode ==
    /\ pc = "encode"
    /\ \E run \in {"raise", "ok"}, output \in {"absent", "small", "ok"},
          keywords \in BOOLEAN :
         /\ run = "raise" => (~keywords /\ output # "small")
         /\ output = "absent" => ~keywords
         /\ encoder_run' = IF run = "ok" THEN "completed" ELSE "raised"
         /\ output_file' = output
         /\ error_lines' = keywords
         /\ Return(IF run = "ok" THEN EncodeResult(output, keywords)
                   ELSE "False")
         /\ failed' = IF result' = "True" THEN "none" ELSE "encoder"
    /\ disk' = cleanup_temp_files(temp_files, disk)
    /\ UNCHANGED <<probeVars, otherVars, inputVars, i, inputs_info, prepVars,
                   temp_files, created, valid_clips_exist, timelineVars,
                   streamVars>>

Next ==
    \/ NoClipPaths
    \/ BeginPreprocess
    \/ PreprocessMissing
    \/ PreprocessImage
    \/ PreprocessVideo
    \/ NoValidClips
    \/ CalculateTimeline
    \/ BuildClipStreams
    \/ BuildClipStreamsFails
    \/ ApplyTransitions
    \/ ApplyTransitionsRaises
    \/ NoBackgroundMusic
    \/ BackgroundMusic
    \/ Encode

Spec == Init /\ [][Next]_vars

SpecResolution == InitResolution /\ [][Next]_vars

NextProbe == ProbeFile

SpecProbe == InitProbe /\ [][NextProbe]_vars

\* ------------------------------------------------------------ properties
NumClips == Len(inputs_info)
TimelineDone == clip_start_times # <<>>
TracksBuilt == processed_video # -1
Uniform(d) == \A k \in 1..NumClips : inputs_info[k].duration = d

\* C1: the narration mix is as long as the crossfaded video track, for
\* every working set and every transition_duration.
C1_AudioEqualsVideo ==
    TracksBuilt => processed_audio = processed_video

\* C2: when two or more clips are mixed, the narration mix lasts as long as
\* the longest delayed stream, max over k of delay[k] + audio length[k]; no
\* stream reaches past the end of the mix.
C2_MixIsLongest ==
    (TracksBuilt /\ NumClips >= 2) =>
        /\ \A k \in 1..NumClips :
              processed_audio >= StreamLength(audio_streams_for_mixing[k])
        /\ \E k \in 1..NumClips :
              processed_audio = StreamLength(audio_streams_for_mixing[k])

C2_Witness ==
    /\ TracksBuilt
    /\ NumClips >= 2
    /\ \E k \in 1..NumClips : inputs_info[k].has_audio
    /\ StreamLength(audio_streams_for_mixing[1]) < processed_audio

\* C3: offset[0] = 0 and every later offset is the previous offset plus
\* max(0.01 s, previous duration - transition_duration).
C3_OffsetRecurrence ==
    TimelineDone =>
        /\ Len(clip_start_times) = NumClips
        /\ clip_start_times[1] = 0
        /\ \A k \in 2..NumClips :
              clip_start_times[k] =
                  clip_start_times[k - 1]
                  + Max2(MinEffectiveDuration,
                         inputs_info[k - 1].duration - transition_duration)

C3_Witness ==
    /\ TimelineDone
    /\ NumClips >= 3
    /\ \E k \in 1..(NumClips - 1) :
          inputs_info[k].duration - transition_duration < MinEffectiveDuration
    /\ \E k \in 1..(NumClips - 1) :
          inputs_info[k].duration - transition_duration > MinEffectiveDuration

\* C4: final_duration_estimate is offset[last] + duration[last], the last
\* clip counting with its full duration.
C4_TotalIsLastEnd ==
    TimelineDone =>
        final_duration_estimate =
            clip_start_times[NumClips] + inputs_info[NumClips].duration

\* C5 as stated: n clips of the same duration d and a transition t < d give
\* a total of n*d - (n-1)*t and offset[i] = i*(d - t).
C5_UniformTimelineOriginal ==
    \A d \in RawDurSet \cup DefaultDurSet :
        (TimelineDone /\ Uniform(d) /\ transition_duration < d) =>
            /\ final_duration_estimate =
                   NumClips * d - (NumClips - 1) * transition_duration
            /\ \A k \in 1..NumClips :
                   clip_start_times[k] = (k - 1) * (d - transition_duration)

\* C5 amended: the same totals and offsets when d is at least 0.01 s and
\* the transition leaves at least 0.01 s of every clip (d - t >= 0.01 s).
C5_UniformTimeline ==
    \A d \in RawDurSet \cup DefaultDurSet :
        (/\ TimelineDone
         /\ Uniform(d)
         /\ d >= MinEffectiveDuration
         /\ d - transition_duration >= MinEffectiveDuration) =>
            /\ final_duration_estimate =
                   NumClips * d - (NumClips - 1) * transition_duration
            /\ \A k \in 1..NumClips :
                   clip_start_times[k] = (k - 1) * (d - transition_duration)

C5_Witness ==
    /\ TimelineDone
    /\ NumClips >= 3
    /\ transition_duration > 0
    /\ \E d \in RawDurSet :
          /\ Uniform(d)
          /\ d - transition_duration >= MinEffectiveDuration

\* C6: the offsets never decrease with the clip index and offset[0] = 0,
\* also when the transition is longer than some or all clips.
C6_OffsetsMonotone ==
    TimelineDone =>
        /\ clip_start_times[1] = 0
        /\ \A k \in 1..(Len(clip_start_times) - 1) :
              clip_start_times[k] <= clip_start_times[k + 1]

C6_Witness ==
    /\ TimelineDone
    /\ NumClips >= 2
    /\ \E k \in 1..(NumClips - 1) :
          transition_duration > inputs_info[k].duration

\* C7: the crossfade that brings in clip i starts at offset[i]; the adelay
\* of every clip is offset[i] in whole milliseconds, the same on both
\* channels, so cut point and delay differ by less than one millisecond.
C7_CutAndDelayAgree ==
    /\ \A k \in 1..Len(audio_streams_for_mixing) :
          LET a == audio_streams_for_mixing[k] IN
          /\ a.delay_left = a.delay_right
          /\ a.delay_left * TicksPerMs <= clip_start_times[k]
          /\ clip_start_times[k] < (a.delay_left + 1) * TicksPerMs
    /\ (TracksBuilt /\ NumClips >= 2) =>
          /\ Len(xfades) = NumClips - 1
          /\ \A k \in 2..NumClips :
                xfades[k - 1].offset = clip_start_times[k]

C7_Witness ==
    /\ TracksBuilt
    /\ NumClips >= 3
    /\ \E k \in 2..NumClips : clip_start_times[k] % TicksPerMs # 0

\* C8 as stated: a clip without audio gives the mix a silent stream as long
\* as the clip's recorded duration, starting at the clip's offset.
C8_SilenceOriginal ==
    \A k \in 1..Len(audio_streams_for_mixing) :
        ~inputs_info[k].has_audio =>
            LET a == audio_streams_for_mixing[k] IN
            /\ a.length = inputs_info[k].duration
            /\ a.delay_left * TicksPerMs = clip_start_times[k]
            /\ a.delay_right * TicksPerMs = clip_start_times[k]

\* C8 amended: the silent stream is as long as the clip's recorded duration
\* and starts at the clip's offset cut down to whole milliseconds.
C8_Silence ==
    \A k \in 1..Len(audio_streams_for_mixing) :
        ~inputs_info[k].has_audio =>
            LET a == audio_streams_for_mixing[k] IN
            /\ a.length = inputs_info[k].duration
            /\ \A delay \in {a.delay_left, a.delay_right} :
                  /\ delay * TicksPerMs <= clip_start_times[k]
                  /\ clip_start_times[k] - delay * TicksPerMs < TicksPerMs

C8_Witness ==
    \E k \in 2..Len(audio_streams_for_mixing) :
        /\ ~inputs_info[k].has_audio
        /\ inputs_info[k].duration > 0
        /\ clip_start_times[k] % TicksPerMs # 0

\* C9: when the function has ended, by a return or by an exception, no
\* wrapper file the image conversion created is left on disk.
C9_TempFilesRemoved ==
    pc = "done" => disk \cap created = {}

\* C10: a failure while the streams are set up, the crossfades chained, the
\* audio mixed or the output encoded ends in the return value False, never
\* in an exception that leaves the function.
C10_FailureReturnsFalse ==
    (pc = "done" /\ failed # "none") => result = "False"
\* the inputs that gave a clip, and the others, by position in clip_paths
ValidInputs == {k \in DOMAIN sources : sources[k].class \in ValidClasses}
InvalidInputs == DOMAIN sources \ ValidInputs
WorkingPaths == {inputs_info[k].path : k \in DOMAIN inputs_info}
ClassesSeen == {sources[k].class : k \in DOMAIN sources}

\* the call ended before a timeline was computed (lines 98-100, 198-201)
GlobalInputFailure == pc = "done" /\ ~TimelineDone

PreFiltered == SelectSeq(sources, LAMBDA src : src.class \in ValidClasses)

\* C12: the working set lists the valid inputs in input order, and the
\* timeline is the one computed from the input list without its invalid
\* inputs.
C12_OrderAndTimeline ==
    /\ \A k \in 1..(Len(inputs_info) - 1) :
          inputs_info[k].path < inputs_info[k + 1].path
    /\ TimelineDone =>
          [clip_start_times |-> clip_start_times,
           current_offset_s |-> final_duration_estimate] =
              TimelineLoop(PreFiltered, transition_duration, 1, 0, <<>>)

\* an invalid input between two valid ones of different durations
C12_Witness ==
    /\ TimelineDone
    /\ \E a, b, c \in DOMAIN sources :
          /\ a < b /\ b < c
          /\ a \in ValidInputs /\ b \in InvalidInputs /\ c \in ValidInputs
          /\ sources[a].duration # sources[c].duration

\* C13: every clip of the working set has a duration above zero, whatever
\* the default image duration.
C13_PositiveDurations ==
    \A k \in DOMAIN inputs_info : inputs_info[k].duration > 0

\* C14: with music that has an audio stream mixed in, the final audio is as
\* long as the narration mix; music shorter than the timeline's total is
\* looped and fills the total, longer music is cut to the total.
C14_MusicKeepsNarrationLength ==
    bg_music = "mixed" =>
        /\ final_audio_stream = processed_audio
        /\ bgm_audio <= final_duration_estimate
        /\ bgm_duration < final_duration_estimate =>
              (bgm_loop /\ bgm_audio = final_duration_estimate)
        /\ bgm_duration >= final_duration_estimate =>
              (~bgm_loop /\ bgm_audio = final_duration_estimate)

\* looped music that outlasts the narration mix
C14_Witness ==
    /\ bg_music = "mixed"
    /\ bgm_loop
    /\ bgm_audio > processed_audio
    /\ final_audio_stream = processed_audio

\* C15: music that is missing, cannot be probed or has no audio stream is
\* left out: no music bed is built, the final audio is the narration mix,
\* and the call goes on to the encoder as it does without music.
C15_MusicSkipped ==
    bg_music \in {"missing", "unprobeable", "no_audio"} =>
        /\ final_audio_stream = processed_audio
        /\ bgm_audio = -1
        /\ bgm_duration = -1
        /\ ~bgm_loop
        /\ pc \in {"encode", "done"}
        /\ failed \in {"none", "encoder"}

\* a call that skipped music without an audio stream and succeeded
C15_Witness ==
    /\ bg_music = "no_audio"
    /\ pc = "done"
    /\ result = "True"

\* C16: an image whose conversion failed is in the working set with the
\* default image duration.
C16_FailedConversionKept ==
    \A k \in DOMAIN sources :
        sources[k].class = "not_converted" =>
            \E j \in DOMAIN inputs_info :
                /\ inputs_info[j].path = k
                /\ inputs_info[j].duration = default_chart_duration

\* C17: an image whose wrapper was written but could not be probed is in
\* the working set with the default image duration, its wrapper is
\* registered for cleanup, and it counts as a valid clip.
C17_UnprobedWrapperAdmitted ==
    \A k \in DOMAIN sources :
        sources[k].class = "wrapper_unprobed" =>
            /\ \E j \in DOMAIN inputs_info :
                  /\ inputs_info[j].path = k
                  /\ inputs_info[j].duration = default_chart_duration
                  /\ inputs_info[j].is_temp
            /\ k \in Range(temp_files)
            /\ valid_clips_exist

\* the only input is an image with an unprobed wrapper of 5 s, and the call
\* has gone on to build the streams
C17_Witness ==
    /\ pc = "build"
    /\ default_chart_duration = 10000
    /\ ClassesSeen = {"wrapper_unprobed"}

\* the frame size of the first clip of the working set whose probe
\* succeeded, or the configured one when there is none
FirstValidatedSize ==
    LET validated == {k \in DOMAIN inputs_info :
                        sources[inputs_info[k].path].class
                            \in {"video", "wrapper"}}
    IN IF validated = {} THEN <<target_width, target_height>>
       ELSE LET k == CHOOSE m \in validated : \A n \in validated : m <= n
            IN <<inputs_info[k].width, inputs_info[k].height>>

\* C18: the job's resolution is the configured target size when the caller
\* passed one, and the first validated clip's size only when not.
C18_TargetResolution ==
    TimelineDone =>
        <<final_video_width, final_video_height>> =
            IF target_explicit THEN <<target_width, target_height>>
            ELSE FirstValidatedSize

C20_ReturnsTrueIff ==
    pc = "done" =>
        (result = "True" <=>
            (encoder_run = "completed" /\ output_file = "ok"))

\* a successful call whose encoder printed failure keywords
C20_Witness ==
    /\ pc = "done"
    /\ result = "True"
    /\ error_lines

\* C22: a step changes the working set only while no timeline exists; the
\* timeline is set once, after the last input was looked at, from the
\* working set as it then is; streams are built only on a complete
\* timeline; music is dealt with only after the tracks exist; the encoder
\* runs only after the music was dealt with.
C22_StageOrder ==
    [][/\ inputs_info' # inputs_info => ~TimelineDone /\ pc = "preprocess"
       /\ clip_start_times' # clip_start_times =>
             /\ clip_start_times = <<>>
             /\ i > Len(clip_paths)
             /\ inputs_info' = inputs_info
             /\ Len(clip_start_times') = Len(inputs_info)
             /\ video_inputs_processed = <<>>
             /\ audio_streams_for_mixing = <<>>
       /\ (\/ video_inputs_processed' # video_inputs_processed
           \/ audio_streams_for_mixing' # audio_streams_for_mixing) =>
             /\ TimelineDone
             /\ Len(clip_start_times) = Len(inputs_info)
             /\ ~TracksBuilt
       /\ processed_video' # processed_video =>
             /\ Len(video_inputs_processed) = Len(inputs_info)
             /\ bg_music = "unset"
       /\ bg_music' # bg_music => TracksBuilt /\ encoder_run = "none"
       /\ encoder_run' # encoder_run =>
             /\ bg_music # "unset"
             /\ final_audio_stream # -1
             /\ pc' = "done"]_vars

\* a call that dropped an input and went through every stage with two
\* clips and music
C22_Witness ==
    /\ pc = "done"
    /\ result = "True"
    /\ NumClips = 2
    /\ InvalidInputs # {}
    /\ bg_music = "mixed"

\* C23: the crossfaded video track is as long as the timeline's total.
C23_VideoEqualsTotal ==
    TracksBuilt => processed_video = final_duration_estimate

\* C25: every crossfade that is built is shorter than both clips it joins,
\* and its window, which starts at the incoming clip's offset, ends no
\* later than the outgoing clip and no later than the incoming clip.
C25_CrossfadeWithinClips ==
    \A k \in DOMAIN xfades :
        /\ xfades[k].duration < inputs_info[k].duration
        /\ xfades[k].duration < inputs_info[k + 1].duration
        /\ xfades[k].offset + xfades[k].duration
              <= clip_start_times[k] + inputs_info[k].duration
        /\ xfades[k].offset + xfades[k].duration
              <= clip_start_times[k + 1] + inputs_info[k + 1].duration

LastClipEndsLast ==
    \A k \in 1..NumClips :
        /\ clip_start_times[k] + inputs_info[k].duration
              <= clip_start_times[NumClips] + inputs_info[NumClips].duration
        /\ clip_start_times[k] + inputs_info[k].duration
              <= final_duration_estimate

\* C27: for every working set and transition, no clip ends after the last
\* one, and the total covers every clip.
C27_LastClipEndsLast ==
    TimelineDone => LastClipEndsLast

\* C24: every clip's video stream has the job's resolution when it enters
\* the crossfade chain, also when the probe gave the clip no frame size.
C24_StreamsAtJobResolution ==
    \A k \in DOMAIN stream_sizes :
        stream_sizes[k] = <<final_video_width, final_video_height>>

-----------------------------------------------------------------------------
\* Two compositions running at the same time on one output directory.  Only
\* what they share is modelled: the wrapper files of lines 135-159 and their
\* removal by cleanup_temp_files.

\* the compositor itself is not running
CompositorIdle ==
    /\ clip_paths = <<>>
    /\ transition_duration = 50
    /\ default_chart_duration = 10000
    /\ target_width = DefaultSize[1]
    /\ target_height = DefaultSize[2]
    /\ target_explicit = FALSE
    /\ media_pool = "none"
    /\ pc = "idle"
    /\ probed_file = <<>>
    /\ probe_result = NoInfo
    /\ InitLocals

\* lines 81-123: each invocation starts with its own clip list and an empty
\* temp_files; the output directory holds no wrapper yet
InitConcurrent ==
    /\ CompositorIdle
    /\ worker_pc = [w \in Workers |-> "convert"]
    /\ worker_clips \in [Workers -> WorkerClipLists]
    /\ worker_i = [w \in Workers |-> 1]
    /\ worker_temp_files = [w \in Workers |-> <<>>]
    /\ output_dir = [p \in TempPaths |-> 0]
    /\ PipelineIdle
    /\ AvatarIdle

CompositorVars == <<probeVars, encVars, inputVars, i, inputs_info, prepVars,
                    temp_files, disk, created, valid_clips_exist,
                    timelineVars, trackVars, pc, result>>

WorkerAdvance(w) ==
    /\ worker_i' = [worker_i EXCEPT ![w] = @ + 1]
    /\ worker_pc' = [worker_pc EXCEPT
                        ![w] = IF worker_i[w] = Len(worker_clips[w])
                               THEN "encode" ELSE "convert"]

\* lines 135-159: ffmpeg writes the wrapper, replacing any file of that name
\* (overwrite_output), and the path is registered in temp_files
WorkerConvert(w) ==
    /\ worker_pc[w] = "convert"
    /\ LET path == TempPath(worker_i[w], worker_clips[w][worker_i[w]])
       IN  /\ output_dir' = [output_dir EXCEPT ![path] = w]
           /\ worker_temp_files' =
                  [worker_temp_files EXCEPT ![w] = Append(@, path)]
    /\ WorkerAdvance(w)
    /\ UNCHANGED worker_clips
    /\ UNCHANGED <<CompositorVars, pipelineVars, avatarVars>>

\* lines 170-173: the conversion raises and the image is dropped
WorkerConvertFails(w) ==
    /\ worker_pc[w] = "convert"
    /\ WorkerAdvance(w)
    /\ UNCHANGED <<worker_clips, worker_temp_files, output_dir>>
    /\ UNCHANGED <<CompositorVars, pipelineVars, avatarVars>>

\* lines 341-380: the encoder reads every wrapper of this invocation
WorkerEncode(w) ==
    /\ worker_pc[w] = "encode"
    /\ worker_pc' = [worker_pc EXCEPT ![w] = "cleanup"]
    /\ UNCHANGED <<worker_clips, worker_i, worker_temp_files, output_dir>>
    /\ UNCHANGED <<CompositorVars, pipelineVars, avatarVars>>

\* lines 65-78: every registered path that exists is removed
WorkerCleanup(w) ==
    /\ worker_pc[w] = "cleanup"
    /\ output_dir' =
          [p \in TempPaths |->
              IF \E k \in DOMAIN worker_temp_files[w] :
                     worker_temp_files[w][k] = p
              THEN 0 ELSE output_dir[p]]
    /\ worker_pc' = [worker_pc EXCEPT ![w] = "done"]
    /\ UNCHANGED <<worker_clips, worker_i, worker_temp_files>>
    /\ UNCHANGED <<CompositorVars, pipelineVars, avatarVars>>

NextConcurrent ==
    \/ \E w \in Workers : WorkerConvert(w)
    \/ \E w \in Workers : WorkerConvertFails(w)
    \/ \E w \in Workers : WorkerEncode(w)
    \/ \E w \in Workers : WorkerCleanup(w)

SpecConcurrent == InitConcurrent /\ [][NextConcurrent]_vars

\* C21: while an invocation still needs its wrappers (it has not finished
\* encoding), every wrapper it registered is in the output directory and
\* holds what that invocation wrote: no other invocation has overwritten or
\* removed it.
C21_NoInterference ==
    \A w \in Workers :
        worker_pc[w] \in {"convert", "encode"} =>
            \A k \in DOMAIN worker_temp_files[w] :
                output_dir[worker_temp_files[w][k]] = w

-----------------------------------------------------------------------------
\* generate_video (app.py) and run_commentary_pipeline (main.py).

MaxEvents == 3

\* main.py line 111: names of the highlight segments, unique by line 116
EventNames == <<"01_2_3_four", "01_7_1_wicket", "02_4_6_six",
                "02_9_2_wicket", "02_19_6_six">>

\* main.py lines 67, 129, 138: the segments in final order
SegmentOrder(intro, n, outro) ==
    (IF intro THEN <<"00_intro">> ELSE <<>>)
        \o SubSeq(EventNames, 1, n)
        \o (IF outro THEN <<"99_conclusion">> ELSE <<>>)

ClipPath(segment_name) == [kind |-> "clip", name |-> segment_name]

ChartPath(chart) == [kind |-> "chart", name |-> chart]

SegmentNames == {segment_order[k] : k \in DOMAIN segment_order}

\* main.py line 198
event_segments_in_order ==
    SelectSeq(segment_order,
              LAMBDA seg : seg # "00_intro" /\ seg # "99_conclusion")

\* main.py line 199
insert_manhattan_at_index == Len(event_segments_in_order) \div 2

NotPipelineVars == <<CompositorVars, workerVars, avatarVars>>

InitPipeline ==
    /\ CompositorIdle
    /\ WorkersIdle
    /\ AvatarIdle
    /\ ui_pc = "start"
    /\ request_valid \in BOOLEAN
    /\ temp_file_exists = FALSE
    /\ segment_order = <<>>
    /\ chart_paths = {}
    /\ avatar_clip_paths = {}
    /\ final_sequence_paths = <<>>
    /\ event_i = 0
    /\ added_manhattan = FALSE
    /\ composition_success = "none"
    /\ final_video = FALSE
    /\ output_video_path = "unset"
    /\ ui_result = "none"

\* app.py lines 18-21: no upload or no ids, raised before anything is saved
RejectRequest ==
    /\ ui_pc = "start"
    /\ ~request_valid
    /\ ui_result' = "error_input"
    /\ ui_pc' = "done"
    /\ UNCHANGED <<request_valid, temp_file_exists, segment_order,
                   chart_paths, avatar_clip_paths, final_sequence_paths,
                   event_i, added_manhattan, composition_success,
                   final_video, output_video_path>>
    /\ UNCHANGED NotPipelineVars

\* app.py lines 30-33
SaveUpload ==
    /\ ui_pc = "start"
    /\ request_valid
    /\ temp_file_exists' = TRUE
    /\ ui_pc' = "load"
    /\ UNCHANGED <<request_valid, segment_order, chart_paths,
                   avatar_clip_paths, final_sequence_paths, event_i,
                   added_manhattan, composition_success, final_video,
                   output_video_path, ui_result>>
    /\ UNCHANGED NotPipelineVars

\* main.py lines 49-52: the match data cannot be loaded, bare return
LoadFails ==
    /\ ui_pc = "load"
    /\ output_video_path' = "None"
    /\ ui_pc' = "returned"
    /\ UNCHANGED <<request_valid, temp_file_exists, segment_order,
                   chart_paths, avatar_clip_paths, final_sequence_paths,
                   event_i, added_manhattan, composition_success,
                   final_video, ui_result>>
    /\ UNCHANGED NotPipelineVars

\* main.py lines 57-143: intro, highlight and conclusion scripts
GenerateScripts ==
    /\ ui_pc = "load"
    /\ \E intro \in BOOLEAN, n \in 0..MaxEvents, outro \in BOOLEAN :
           segment_order' = SegmentOrder(intro, n, outro)
    /\ ui_pc' = "charts"
    /\ UNCHANGED <<request_valid, temp_file_exists, chart_paths,
                   avatar_clip_paths, final_sequence_paths, event_i,
                   added_manhattan, composition_success, final_video,
                   output_video_path, ui_result>>
    /\ UNCHANGED NotPipelineVars

\* main.py lines 149-154
GenerateCharts ==
    /\ ui_pc = "charts"
    /\ chart_paths' \in SUBSET {"run_rate", "manhattan"}
    /\ ui_pc' = "avatars"
    /\ UNCHANGED <<request_valid, temp_file_exists, segment_order,
                   avatar_clip_paths, final_sequence_paths, event_i,
                   added_manhattan, composition_success, final_video,
                   output_video_path, ui_result>>
    /\ UNCHANGED NotPipelineVars

\* main.py lines 158-183: a clip for each segment whose generation succeeds
GenerateAvatarClips ==
    /\ ui_pc = "avatars"
    /\ avatar_clip_paths' \in SUBSET SegmentNames
    /\ ui_pc' = "sequence"
    /\ UNCHANGED <<request_valid, temp_file_exists, segment_order,
                   chart_paths, final_sequence_paths, event_i,
                   added_manhattan, composition_success, final_video,
                   output_video_path, ui_result>>
    /\ UNCHANGED NotPipelineVars

\* main.py lines 189-201: intro clip, run-rate chart, loop set up
SequenceHead ==
    /\ ui_pc = "sequence"
    /\ final_sequence_paths' =
          (IF "00_intro" \in avatar_clip_paths
           THEN <<ClipPath("00_intro")>> ELSE <<>>)
          \o (IF "run_rate" \in chart_paths
              THEN <<ChartPath("run_rate")>> ELSE <<>>)
    /\ added_manhattan' = FALSE
    /\ event_i' = 0
    /\ ui_pc' = "events"
    /\ UNCHANGED <<request_valid, temp_file_exists, segment_order,
                   chart_paths, avatar_clip_paths, composition_success,
                   final_video, output_video_path, ui_result>>
    /\ UNCHANGED NotPipelineVars

\* main.py lines 202-210: one pass of the event loop
SequenceEvent ==
    /\ ui_pc = "events"
    /\ event_i < Len(event_segments_in_order)
    /\ LET segment_name == event_segments_in_order[event_i + 1]
           insert == /\ event_i = insert_manhattan_at_index
                     /\ "manhattan" \in chart_paths
       IN  /\ final_sequence_paths' =
                  final_sequence_paths
                  \o (IF insert THEN <<ChartPath("manhattan")>> ELSE <<>>)
                  \o (IF segment_name \in avatar_clip_paths
                      THEN <<ClipPath(segment_name)>> ELSE <<>>)
           /\ added_manhattan' = (added_manhattan \/ insert)
    /\ event_i' = event_i + 1
    /\ UNCHANGED <<ui_pc, request_valid, temp_file_exists, segment_order,
                   chart_paths, avatar_clip_paths, composition_success,
                   final_video, output_video_path, ui_result>>
    /\ UNCHANGED NotPipelineVars

ManhattanPendingAlways(added, charts) == "manhattan" \in charts

\* main.py line 213
ManhattanPending(added, charts) == ~added /\ "manhattan" \in charts

\* main.py lines 213-222: Manhattan chart if not yet added, conclusion, and
\* the bare return when there is nothing to compose
SequenceTail ==
    /\ ui_pc = "events"
    /\ event_i = Len(event_segments_in_order)
    /\ LET sequence ==
               final_sequence_paths
               \o (IF ManhattanPending(added_manhattan, chart_paths)
                   THEN <<ChartPath("manhattan")>> ELSE <<>>)
               \o (IF "99_conclusion" \in avatar_clip_paths
                   THEN <<ClipPath("99_conclusion")>> ELSE <<>>)
       IN  /\ final_sequence_paths' = sequence
           /\ IF sequence = <<>>
              THEN ui_pc' = "returned" /\ output_video_path' = "None"
              ELSE ui_pc' = "compose" /\ UNCHANGED output_video_path
    /\ UNCHANGED <<request_valid, temp_file_exists, segment_order,
                   chart_paths, avatar_clip_paths, event_i, added_manhattan,
                   composition_success, final_video, ui_result>>
    /\ UNCHANGED NotPipelineVars

\* main.py lines 231-250: the compositor is called, its result is only
\* printed, and the function ends without a return statement
ComposeFinalVideo ==
    /\ ui_pc = "compose"
    /\ \E ok \in BOOLEAN :
           /\ composition_success' = IF ok THEN "True" ELSE "False"
           /\ final_video' \in IF ok THEN {TRUE} ELSE BOOLEAN
    /\ output_video_path' = "None"
    /\ ui_pc' = "returned"
    /\ UNCHANGED <<request_valid, temp_file_exists, segment_order,
                   chart_paths, avatar_clip_paths, final_sequence_paths,
                   event_i, added_manhattan, ui_result>>
    /\ UNCHANGED NotPipelineVars

\* app.py lines 55-57: any exception of the pipeline reaches the UI wrapped
PipelineRaises ==
    /\ ui_pc \in {"load", "charts", "avatars", "sequence", "events",
                   "compose"}
    /\ ui_result' = "error_exception"
    /\ ui_pc' = "finally"
    /\ UNCHANGED <<request_valid, temp_file_exists, segment_order,
                   chart_paths, avatar_clip_paths, final_sequence_paths,
                   event_i, added_manhattan, composition_success,
                   final_video, output_video_path>>
    /\ UNCHANGED NotPipelineVars

\* app.py lines 47-53: the path is returned only if the pipeline returned
\* one and the file exists; otherwise 'Video generation failed' is raised
CheckOutput ==
    /\ ui_pc = "returned"
    /\ ui_result' = IF output_video_path # "None" /\ final_video
                    THEN "path" ELSE "error_failed"
    /\ ui_pc' = "finally"
    /\ UNCHANGED <<request_valid, temp_file_exists, segment_order,
                   chart_paths, avatar_clip_paths, final_sequence_paths,
                   event_i, added_manhattan, composition_success,
                   final_video, output_video_path>>
    /\ UNCHANGED NotPipelineVars

\* app.py lines 58-61
RemoveUpload ==
    /\ ui_pc = "finally"
    /\ temp_file_exists' = FALSE
    /\ ui_pc' = "done"
    /\ UNCHANGED <<request_valid, segment_order, chart_paths,
                   avatar_clip_paths, final_sequence_paths, event_i,
                   added_manhattan, composition_success, final_video,
                   output_video_path, ui_result>>
    /\ UNCHANGED NotPipelineVars

NextPipeline ==
    \/ RejectRequest
    \/ SaveUpload
    \/ LoadFails
    \/ GenerateScripts
    \/ GenerateCharts
    \/ GenerateAvatarClips
    \/ SequenceHead
    \/ SequenceEvent
    \/ SequenceTail
    \/ ComposeFinalVideo
    \/ PipelineRaises
    \/ CheckOutput
    \/ RemoveUpload

SpecPipeline == InitPipeline /\ [][NextPipeline]_vars

\* C28: when the pipeline has composed the final video, generate_video
\* returns its path; 'Video generation failed' is raised only when no video
\* was produced; and the saved upload is gone when generate_video has ended.
C28_ReturnsComposedVideo ==
    ui_pc = "done" =>
        /\ composition_success = "True" => ui_result = "path"
        /\ ui_result = "error_failed" => ~final_video
        /\ ~temp_file_exists

\* the sequence is complete and handed to the compositor
SequenceBuilt == ui_pc = "compose" \/ composition_success # "none"

GeneratedAssets ==
    {ClipPath(seg) : seg \in avatar_clip_paths}
        \cup {ChartPath(c) : c \in chart_paths}

Positions(asset) ==
    {k \in DOMAIN final_sequence_paths : final_sequence_paths[k] = asset}

Before(a, b) == \A p \in Positions(a), q \in Positions(b) : p < q

\* C30: in the sequence handed to the compositor every generated asset, and
\* nothing else, appears exactly once; the intro clip is first, the run-rate
\* chart follows it, clips keep the segment order, the Manhattan chart comes
\* after the intro and the run-rate chart and before the conclusion, and the
\* conclusion clip is last.
C30_SequenceOrder ==
    SequenceBuilt =>
        /\ \A a \in GeneratedAssets : Cardinality(Positions(a)) = 1
        /\ \A k \in DOMAIN final_sequence_paths :
               final_sequence_paths[k] \in GeneratedAssets
        /\ "00_intro" \in avatar_clip_paths =>
               final_sequence_paths[1] = ClipPath("00_intro")
        /\ "run_rate" \in chart_paths =>
               final_sequence_paths[IF "00_intro" \in avatar_clip_paths
                                    THEN 2 ELSE 1] = ChartPath("run_rate")
        /\ "99_conclusion" \in avatar_clip_paths =>
               final_sequence_paths[Len(final_sequence_paths)] =
                   ClipPath("99_conclusion")
        /\ \A j, k \in DOMAIN segment_order :
               j < k => Before(ClipPath(segment_order[j]),
                               ClipPath(segment_order[k]))
        /\ Before(ClipPath("00_intro"), ChartPath("manhattan"))
        /\ Before(ChartPath("run_rate"), ChartPath("manhattan"))
        /\ Before(ChartPath("manhattan"), ClipPath("99_conclusion"))

\* every asset generated, three events: the Manhattan chart stands between
\* the first and the second event clip
C30_Witness ==
    /\ composition_success = "True"
    /\ Len(event_segments_in_order) = 3
    /\ avatar_clip_paths = SegmentNames
    /\ {"00_intro", "99_conclusion"} \subseteq SegmentNames
    /\ chart_paths = {"run_rate", "manhattan"}
    /\ final_sequence_paths[4] = ChartPath("manhattan")

-----------------------------------------------------------------------------
\* get_avatar_clip (avatar_handler.py lines 264-331).  Time is in seconds;
\* clock is time.time() - start_time.

MaxWait == 6

\* max_wait_minutes * 60 (line 283), scaled down
MaxWaitSet == {0, 3, MaxWait}

RetryDelaySet == {0, 1, 2}

\* how long one call of check_video_status takes; 0 is a call that returns
\* within the same second (line 136 returns without any request)
CheckTimes == {0, 1, 2}

\* line 318
WaitStatuses == {"processing", "pending", "waiting", "None", "timeout"}

\* line 323 adds min(poll_count * 2, 40): counts above 20 all behave alike
PollCountCap == 20

NotAvatarVars == <<CompositorVars, workerVars, pipelineVars>>

InitAvatar ==
    /\ CompositorIdle
    /\ WorkersIdle
    /\ PipelineIdle
    /\ avatar_pc = "request"
    /\ max_wait_seconds \in MaxWaitSet
    /\ retry_delay_status \in RetryDelaySet
    /\ clock = 0
    /\ poll_count = 0
    /\ status = "none"
    /\ video_url = FALSE
    /\ downloaded = FALSE
    /\ file_ok = FALSE
    /\ checked_late = FALSE
    /\ avatar_result = "none"

ReturnClip(r) == avatar_pc' = "done" /\ avatar_result' = r

\* lines 272-275: no video id
RequestFails ==
    /\ avatar_pc = "request"
    /\ ReturnClip("None")
    /\ UNCHANGED <<max_wait_seconds, retry_delay_status, clock, poll_count,
                   status, video_url, downloaded, file_ok, checked_late>>
    /\ UNCHANGED NotAvatarVars

\* lines 272-284: a video id; polling begins
RequestVideo ==
    /\ avatar_pc = "request"
    /\ avatar_pc' = "poll"
    /\ clock' = 0
    /\ poll_count' = 0
    /\ UNCHANGED <<max_wait_seconds, retry_delay_status, status, video_url,
                   downloaded, file_ok, checked_late, avatar_result>>
    /\ UNCHANGED NotAvatarVars

TimedOutLate(current_wait, limit) == current_wait > limit

\* line 287
TimedOut(current_wait, limit) == current_wait >= limit

\* lines 286-289
PollTimeout ==
    /\ avatar_pc = "poll"
    /\ TimedOut(clock, max_wait_seconds)
    /\ ReturnClip("None")
    /\ UNCHANGED <<max_wait_seconds, retry_delay_status, clock, poll_count,
                   status, video_url, downloaded, file_ok, checked_late>>
    /\ UNCHANGED NotAvatarVars

\* lines 286-291: the limit is not reached and check_video_status is called;
\* it answers after d seconds
CheckStatus(d, response) ==
    /\ avatar_pc = "poll"
    /\ ~TimedOut(clock, max_wait_seconds)
    /\ checked_late' = (checked_late \/ clock >= max_wait_seconds)
    /\ status' = response
    /\ UNCHANGED <<max_wait_seconds, retry_delay_status>>
    /\ UNCHANGED NotAvatarVars

\* lines 295-310
CompletedResult(url, download_ok, big_enough) ==
    IF url
    THEN IF download_ok
         THEN IF big_enough THEN "path" ELSE "None"
         ELSE "None"
    ELSE "None"

\* lines 295-310: 'completed'
PollCompleted(d) ==
    /\ CheckStatus(d, "completed")
    /\ \E url \in BOOLEAN, download_ok \in BOOLEAN, big_enough \in BOOLEAN :
           /\ video_url' = url
           /\ downloaded' = (url /\ download_ok)
           /\ file_ok' = (url /\ download_ok /\ big_enough)
           /\ ReturnClip(CompletedResult(url, download_ok, big_enough))
    /\ clock' = clock + d
    /\ UNCHANGED poll_count

\* lines 312-315: 'failed' or 'error'
PollFailed(d) ==
    /\ \E response \in {"failed", "error"} : CheckStatus(d, response)
    /\ ReturnClip("None")
    /\ clock' = clock + d
    /\ UNCHANGED <<poll_count, video_url, downloaded, file_ok>>

\* lines 318-328: a waiting status; sleep for the growing delay, cut to the
\* time left less one second, or not at all if that is not positive
PollPending(d) ==
    /\ \E response \in WaitStatuses : CheckStatus(d, response)
    /\ LET current_wait == clock
           count == poll_count + 1
           remaining_time == Max2(0, max_wait_seconds - current_wait - 1)
           current_delay == retry_delay_status + Min2(count * 2, 40)
           wait_time == Min2(current_delay, remaining_time)
       IN  /\ poll_count' = Min2(count, PollCountCap)
           /\ clock' = clock + d + (IF wait_time <= 0 THEN 0 ELSE wait_time)
    /\ UNCHANGED <<avatar_pc, video_url, downloaded, file_ok,
                   avatar_result>>

\* lines 329-331: any other status; sleep retry_delay_status
PollUnexpected(d) ==
    /\ CheckStatus(d, "unexpected")
    /\ clock' = clock + d + retry_delay_status
    /\ UNCHANGED <<avatar_pc, poll_count, video_url, downloaded, file_ok,
                   avatar_result>>

NextAvatar ==
    \/ RequestFails
    \/ RequestVideo
    \/ PollTimeout
    \/ \E d \in CheckTimes : PollCompleted(d)
    \/ \E d \in CheckTimes : PollFailed(d)
    \/ \E d \in CheckTimes : PollPending(d)
    \/ \E d \in CheckTimes : PollUnexpected(d)

SpecAvatar == InitAvatar /\ [][NextAvatar]_vars

\* a pass of the polling loop during which the clock moves on
TimePasses ==
    \E d \in CheckTimes \ {0} :
        PollCompleted(d) \/ PollFailed(d) \/ PollPending(d)
            \/ PollUnexpected(d)

\* the function keeps running, and time.time() does not stand still for
\* ever while it polls
SpecAvatarFair ==
    SpecAvatar /\ WF_vars(NextAvatar) /\ WF_vars(TimePasses)

AvatarSafe ==
    /\ ~checked_late
    /\ avatar_pc = "done" => avatar_result \in {"None", "path"}
    /\ avatar_result = "path" =>
           status = "completed" /\ video_url /\ downloaded /\ file_ok

\* C29: get_avatar_clip ends for every sequence of status responses, with a
\* path or None; no status check begins once max_wait_seconds have passed
\* since polling began; and a path is returned only after 'completed' with a
\* URL, a successful download and a file of more than 1000 bytes.
C29_TerminatesInTime == []AvatarSafe /\ <>(avatar_pc = "done")

\* None after the limit, following waiting and unexpected statuses
C29_Witness ==
    /\ avatar_pc = "done"
    /\ avatar_result = "None"
    /\ clock >= max_wait_seconds
    /\ max_wait_seconds = MaxWait
    /\ status = "unexpected"
    /\ poll_count >= 2
====
